---- MODULE Spec2Model ----
(***************************************************************************)
(* kubectl podvolumebackup-list (src/main.go): the run of main() as a      *)
(* state machine (fetch, filter lists, output validation, the per-item     *)
(* loop, the sort, the five renderers) and its pure helpers as operators.  *)
(*                                                                         *)
(* Strings are TLA+ strings; a character is a string of length 1.  Two     *)
(* characters of the program cannot be written in a TLA+ string and have   *)
(* stand-ins: ESC (0x1b) is "^" and the box-drawing rule U+2500 is "~".    *)
(* Neither stand-in occurs in any input.                                   *)
(*                                                                         *)
(* An int64 is a sign and a magnitude; the magnitude is a little-endian    *)
(* sequence of base-1024 limbs without high zero limbs (<<>> is 0), so     *)
(* that 64-bit values are computed exactly with small integers.            *)
(***************************************************************************)
EXTENDS Integers, Sequences, FiniteSets, TLC

\* ------------------------------------------------------------------ bounds
\* Longest list of PodVolumeBackup items the fetch returns.
MaxItems == 2
\* Longest list of items that differ in status alone.
MaxSizeItems == 1

\* ------------------------------------------------------- program constants
\* const unit = 1024 in humanBytes.
unit == 1024
\* strings.Repeat("...", 72) in prettyDivider.
DividerWidth == 72

\* -------------------------------------------------------------- characters
\* Printable ASCII characters in ascending byte order (Go compares
\* strings bytewise).  Only input strings are compared, and no input holds
\* a stand-in character.
Alphabet ==
  " !#$%&()*+,-./0123456789:;<=>?@ABCDEFGHIJKLMNOPQRSTUVWXYZ[]^_abcdefghijklmnopqrstuvwxyz{|}~"

Chr(s, i) == SubSeq(s, i, i)

Ord(ch) == CHOOSE i \in 1..Len(Alphabet) : Chr(Alphabet, i) = ch

Upper == "ABCDEFGHIJKLMNOPQRSTUVWXYZ"
Lower == "abcdefghijklmnopqrstuvwxyz"

\* unicode.ToLower on one character.
LowerChr(ch) ==
  IF \E i \in 1..Len(Upper) : Chr(Upper, i) = ch
    THEN Chr(Lower, CHOOSE i \in 1..Len(Upper) : Chr(Upper, i) = ch)
    ELSE ch

RECURSIVE ToLower(_)
ToLower(s) == IF s = "" THEN "" ELSE LowerChr(Chr(s, 1)) \o ToLower(Tail(s))

RECURSIVE TrimLeft(_)
TrimLeft(s) == IF s # "" /\ Chr(s, 1) = " " THEN TrimLeft(Tail(s)) ELSE s

RECURSIVE TrimRight(_)
TrimRight(s) ==
  IF s # "" /\ Chr(s, Len(s)) = " " THEN TrimRight(SubSeq(s, 1, Len(s) - 1)) ELSE s

TrimSpace(s) == TrimRight(TrimLeft(s))

HasPrefix(s, p) == Len(s) >= Len(p) /\ SubSeq(s, 1, Len(p)) = p

Contains(s, sub) ==
  \E i \in 1..(Len(s) - Len(sub) + 1) : SubSeq(s, i, i + Len(sub) - 1) = sub

\* a < b for Go strings: bytewise lexicographic.
RECURSIVE StrLess(_, _)
StrLess(a, b) ==
  IF b = "" THEN FALSE
  ELSE IF a = "" THEN TRUE
  ELSE IF Chr(a, 1) = Chr(b, 1) THEN StrLess(Tail(a), Tail(b))
  ELSE Ord(Chr(a, 1)) < Ord(Chr(b, 1))

RECURSIVE Repeat(_, _)
Repeat(s, n) == IF n <= 0 THEN "" ELSE s \o Repeat(s, n - 1)

\* ------------------------------------------------------------------ int64
RECURSIVE Norm(_)
Norm(l) ==
  IF l # <<>> /\ l[Len(l)] = 0 THEN Norm(SubSeq(l, 1, Len(l) - 1)) ELSE l

I64(neg, mag) == [neg |-> neg /\ Norm(mag) # <<>>, mag |-> Norm(mag)]

\* A small non-negative integer as a magnitude.
RECURSIVE MagOf(_)
MagOf(n) == IF n = 0 THEN <<>> ELSE <<n % unit>> \o MagOf(n \div unit)

IntOf(n) == IF n < 0 THEN I64(TRUE, MagOf(0 - n)) ELSE I64(FALSE, MagOf(n))

\* Magnitudes compared: a < b.
RECURSIVE MagLess(_, _)
MagLess(a, b) ==
  IF Len(a) # Len(b) THEN Len(a) < Len(b)
  ELSE IF a = <<>> THEN FALSE
  ELSE IF a[Len(a)] # b[Len(b)] THEN a[Len(a)] < b[Len(b)]
  ELSE MagLess(SubSeq(a, 1, Len(a) - 1), SubSeq(b, 1, Len(b) - 1))

\* 2^63 as a magnitude: the first magnitude that is no non-negative int64.
TwoTo63 == <<0, 0, 0, 0, 0, 0, 8>>

\* Whether a signed value lies in [-2^63, 2^63 - 1].
FitsInt64(neg, mag) ==
  IF neg THEN ~MagLess(TwoTo63, Norm(mag)) ELSE MagLess(Norm(mag), TwoTo63)

\* mag * m + c for small m, c (each step stays far below 2^31).
RECURSIVE MagMulAdd(_, _, _)
MagMulAdd(l, m, c) ==
  IF l = <<>> THEN MagOf(c)
  ELSE LET cur == l[1] * m + c
       IN  <<cur % unit>> \o MagMulAdd(Tail(l), m, cur \div unit)

\* mag divided by the small d: quotient (not normalised) and remainder.
RECURSIVE MagDivMod(_, _)
MagDivMod(l, d) ==
  IF l = <<>> THEN [q |-> <<>>, r |-> 0]
  ELSE LET hi  == MagDivMod(Tail(l), d)
           cur == hi.r * unit + l[1]
       IN  [q |-> <<cur \div d>> \o hi.q, r |-> cur % d]

Digits == "0123456789"

RECURSIVE MagDec(_)
MagDec(l) ==
  IF Norm(l) = <<>> THEN ""
  ELSE LET dm == MagDivMod(Norm(l), 10)
       IN  MagDec(dm.q) \o Chr(Digits, dm.r + 1)

\* fmt's %d of an int64.
FormatInt(b) ==
  IF b.mag = <<>> THEN "0" ELSE (IF b.neg THEN "-" ELSE "") \o MagDec(b.mag)

\* The low 64 bits of a magnitude (a product that wrapped).  Only powers of
\* two are wrapped here, so the sign bit alone is never what is left.
Wrap64(l) ==
  Norm(IF Len(l) < 7 THEN l
       ELSE SubSeq(l, 1, 6) \o <<l[7] % 16>>)

\* -------------------------------------------------------------- humanBytes
\* Number of bits of a limb.
BitLen(x) == CHOOSE n \in 0..10 : (x < 2^n) /\ (n = 0 \/ x >= 2^(n - 1))

\* Adds one at limb i (1-based) and carries.
RECURSIVE MagInc(_, _)
MagInc(l, i) ==
  IF i > Len(l) THEN l \o [j \in 1..(i - Len(l)) |-> IF j = i - Len(l) THEN 1 ELSE 0]
  ELSE IF l[i] + 1 < unit THEN [l EXCEPT ![i] = l[i] + 1]
  ELSE MagInc([l EXCEPT ![i] = 0], i + 1)

\* float64(b) for b >= 0: the magnitude rounded to 53 significant bits, ties
\* to even.  At most 63 bits come in, so only the lowest limb is rounded away.
ToFloat64(l) ==
  IF l = <<>> THEN l
  ELSE
    LET bits == 10 * (Len(l) - 1) + BitLen(l[Len(l)])
        d    == bits - 53
    IN  IF d <= 0 THEN l
        ELSE IF d >= 10
          THEN LET up == l[1] > 512 \/ (l[1] = 512 /\ l[2] % 2 = 1)
                   z  == [l EXCEPT ![1] = 0]
               IN  IF up THEN MagInc(z, 2) ELSE z
          ELSE LET q  == l[1] \div (2^d)
                   r  == l[1] % (2^d)
                   h  == 2^(d - 1)
                   up == r > h \/ (r = h /\ q % 2 = 1)
                   z  == [l EXCEPT ![1] = q * (2^d)]
               IN  IF ~up THEN z
                   ELSE IF (q + 1) * (2^d) < unit
                     THEN [l EXCEPT ![1] = (q + 1) * (2^d)]
                     ELSE MagInc([l EXCEPT ![1] = 0], 2)

AllZero(l) == \A i \in 1..Len(l) : l[i] = 0

\* fmt's %.1f of float64(b)/float64(div) for b >= 0 and div = 1024^k: the
\* float of b, divided exactly by the power of two, rounded to one decimal
\* with ties to even.
FormatF1(b, div) ==
  LET k     == Len(div) - 1
      f     == ToFloat64(b.mag)
      t     == MagMulAdd(f, 10, 0)
      frac  == SubSeq(t, 1, IF k < Len(t) THEN k ELSE Len(t))
      whole == Norm(SubSeq(t, k + 1, Len(t)))
      top   == IF Len(frac) = k /\ k > 0 THEN frac[k] ELSE 0
      rest  == SubSeq(frac, 1, Len(frac) - 1)
      odd   == whole # <<>> /\ whole[1] % 2 = 1
      up    == top > 512 \/ (top = 512 /\ (~AllZero(rest) \/ odd))
      tenth == IF up THEN MagInc(whole, 1) ELSE whole
      dm    == MagDivMod(tenth, 10)
      ip    == MagDec(dm.q)
  IN  (IF ip = "" THEN "0" ELSE ip) \o "." \o Chr(Digits, dm.r + 1)

UnitLetters == "KMGTPE"

\* What a run that panics leaves in place of a value.
Panic == "panic: index out of range"

\* b < unit.
LtUnit(b) == b.neg \/ Len(b.mag) <= 1

\* for n := b / unit; n >= unit; n /= unit { div *= unit; exp++ }
\* over is set when div *= unit left the int64 range.
RECURSIVE humanBytesLoop(_, _, _, _)
humanBytesLoop(n, div, exp, over) ==
  IF Len(n) >= 2
    THEN LET p == <<0>> \o div
         IN  humanBytesLoop(Tail(n), Wrap64(p), exp + 1,
                            over \/ ~FitsInt64(FALSE, p))
    ELSE [div |-> div, exp |-> exp, over |-> over]

\* The loop started at n := b instead of n := b / unit.
humanBytesScale_FromB(b) == humanBytesLoop(b.mag, <<0, 1>>, 0, FALSE)

\* div, exp := int64(unit), 0 and the loop, for b >= unit.
humanBytesScale(b) == humanBytesLoop(Tail(b.mag), <<0, 1>>, 0, FALSE)

humanBytes(b) ==
  IF LtUnit(b) THEN FormatInt(b) \o " B"
  ELSE LET s == humanBytesScale(b)
       IN  IF s.exp >= Len(UnitLetters) THEN Panic
           ELSE FormatF1(b, s.div) \o " " \o Chr(UnitLetters, s.exp + 1) \o "iB"

\* ------------------------------------------------- unstructured content
\* A value of an unstructured object (item.Object): its dynamic type t and,
\* by type, its string s, its number n (for a float64 the integral part,
\* with frac telling whether a fractional part follows) or its map m.
Val(t, s, n, frac, m) == [t |-> t, s |-> s, n |-> n, frac |-> frac, m |-> m]

Zero == I64(FALSE, <<>>)

Str(s)      == Val("string", s, Zero, FALSE, <<>>)
IntV(n)     == Val("int64", "", n, FALSE, <<>>)
FloatV(n, f) == Val("float64", "", n, f, <<>>)
Num(s)      == Val("json.Number", s, Zero, FALSE, <<>>)
Bool        == Val("bool", "", Zero, FALSE, <<>>)
Map(m)      == Val("map", "", Zero, FALSE, m)
\* A key that is not there.
Absent      == Val("absent", "", Zero, FALSE, <<>>)

\* m[k] of a Go map: the value, or Absent for a missing key.
Get(m, k) == IF k \in DOMAIN m THEN m[k] ELSE Absent

\* A map entry, or none when the value is Absent.
Opt(k, v) == IF v.t = "absent" THEN <<>> ELSE (k :> v)

\* unstructured.NestedMap(obj, k): found only for a map.
NestedMap(obj, k) ==
  [found |-> Get(obj, k).t = "map", m |-> Get(obj, k).m]

\* unstructured.NestedString(obj, k1, k2): found only for a string.
NestedString(obj, k1, k2) ==
  LET v == Get(NestedMap(obj, k1).m, k2)
  IN  [found |-> v.t = "string", s |-> v.s]

\* item.GetName().
GetName(obj) == NestedString(obj, "metadata", "name").s

BackupNameLabel == "velero.io/backup-name"

\* labels["velero.io/backup-name"] of item.GetLabels(), "" without labels.
GetBackupLabel(obj) ==
  LET labels == NestedMap(NestedMap(obj, "metadata").m, "labels")
  IN  Get(labels.m, BackupNameLabel).s

\* ---------------------------------------------------------------- getInt64
IsDigit(ch) == \E i \in 1..Len(Digits) : Chr(Digits, i) = ch

DigitVal(ch) == (CHOOSE i \in 1..Len(Digits) : Chr(Digits, i) = ch) - 1

RECURSIVE DecMag(_, _)
DecMag(s, acc) ==
  IF s = "" THEN acc ELSE DecMag(Tail(s), MagMulAdd(acc, 10, DigitVal(Chr(s, 1))))

\* strconv.ParseInt(s, 10, 64): an optional sign, then digits only, and the
\* value inside the int64 range.
ParseInt(s) ==
  LET signed == s # "" /\ Chr(s, 1) \in {"+", "-"}
      neg    == s # "" /\ Chr(s, 1) = "-"
      body   == IF signed THEN Tail(s) ELSE s
      syntax == body # "" /\ \A i \in 1..Len(body) : IsDigit(Chr(body, i))
      mag    == IF syntax THEN Norm(DecMag(body, <<>>)) ELSE <<>>
  IN  IF syntax /\ FitsInt64(neg, mag)
        THEN [ok |-> TRUE, n |-> I64(neg, mag)]
        ELSE [ok |-> FALSE, n |-> Zero]

getInt64(v) ==
  CASE v.t \in {"int64", "int32", "int"} -> [ok |-> TRUE, n |-> v.n]
    [] v.t = "float64"                   -> [ok |-> TRUE, n |-> v.n]
    [] v.t \in {"json.Number", "string"} -> ParseInt(v.s)
    [] OTHER                             -> [ok |-> FALSE, n |-> Zero]

\* ---------------------------------------------------------------- filters
\* strings.Split(s, ",").
RECURSIVE Split(_, _)
Split(s, sep) ==
  IF \E i \in 1..Len(s) : Chr(s, i) = sep
    THEN LET i == CHOOSE i \in 1..Len(s) :
                    Chr(s, i) = sep /\ \A j \in 1..(i - 1) : Chr(s, j) # sep
         IN  <<SubSeq(s, 1, i - 1)>> \o Split(SubSeq(s, i + 1, Len(s)), sep)
    ELSE <<s>>

RECURSIVE TrimNonEmpty(_)
TrimNonEmpty(parts) ==
  IF parts = <<>> THEN <<>>
  ELSE LET p == TrimSpace(Head(parts))
       IN  (IF p # "" THEN <<p>> ELSE <<>>) \o TrimNonEmpty(Tail(parts))

splitCSV(s) == IF s = "" THEN <<>> ELSE TrimNonEmpty(Split(s, ","))

\* anyContainsFold without the case folding of the haystack.
anyContainsFold_CaseSensitive(hay, needles) ==
  IF Len(needles) = 0 THEN TRUE
  ELSE \E i \in 1..Len(needles) : Contains(hay, ToLower(needles[i]))

anyContainsFold(hay, needles) ==
  IF Len(needles) = 0 THEN TRUE
  ELSE \E i \in 1..Len(needles) : Contains(ToLower(hay), ToLower(needles[i]))

anyEqual(hay, allowed) ==
  IF Len(allowed) = 0 THEN TRUE
  ELSE \E i \in 1..Len(allowed) : hay = allowed[i]

\* ------------------------------------------------------------------ color
\* detectColor that does not look at NO_COLOR.
detectColor_IgnoresNoColor(mode, noColor, isTerminal) ==
  LET m == ToLower(TrimSpace(mode))
  IN  IF m = "never" THEN FALSE
      ELSE IF m = "always" THEN TRUE
      ELSE isTerminal

\* noColor is os.Getenv("NO_COLOR"), isTerminal is term.IsTerminal(stdout).
detectColor(mode, noColor, isTerminal) ==
  LET m == ToLower(TrimSpace(mode))
  IN  IF m = "never" THEN FALSE
      ELSE IF m = "always" THEN TRUE
      ELSE IF noColor # "" THEN FALSE
      ELSE isTerminal

ESC == "^"

c(enabled, code, s) ==
  IF ~enabled \/ s = "" THEN s
  ELSE ESC \o "[" \o code \o "m" \o s \o ESC \o "[0m"

prettyDivider(enabled) == c(enabled, "2", Repeat("~", DividerWidth))

\* -------------------------------------------------------------------- rows
\* A *int64: <<>> is nil, <<n>> points to n.
Nil == <<>>

\* spec.pod.name, spec.pod.namespace and spec.volume, "" unless a string.
podNameOf(obj) ==
  LET spec == NestedMap(obj, "spec")
      pod  == NestedMap(spec.m, "pod")
      n    == Get(pod.m, "name")
  IN  IF spec.found /\ pod.found /\ n.t = "string" THEN n.s ELSE ""

podNSOf(obj) ==
  LET spec == NestedMap(obj, "spec")
      pod  == NestedMap(spec.m, "pod")
      n    == Get(pod.m, "namespace")
  IN  IF spec.found /\ pod.found /\ n.t = "string" THEN n.s ELSE ""

volumeOf(obj) ==
  LET spec == NestedMap(obj, "spec")
      v    == Get(spec.m, "volume")
  IN  IF spec.found /\ v.t = "string" THEN v.s ELSE ""

\* The name test and the three filters of the loop body: whether the item
\* reaches the append.
keepItem(obj, allFlag, prefix, podNeedles, nsAllowed, volumeAllowed) ==
  /\ ~(~allFlag /\ ~HasPrefix(GetName(obj), prefix))
  /\ ~(Len(podNeedles) > 0
         /\ (podNameOf(obj) = "" \/ ~anyContainsFold(podNameOf(obj), podNeedles)))
  /\ ~(Len(nsAllowed) > 0 /\ ~anyEqual(podNSOf(obj), nsAllowed))
  /\ ~(Len(volumeAllowed) > 0 /\ ~anyEqual(volumeOf(obj), volumeAllowed))

\* Whether the loop body reaches the progress map (the debug print).
hasProgress(obj) ==
  LET status == NestedMap(obj, "status")
  IN  status.found /\ NestedMap(status.m, "progress").found

\* sizeOf whose bytesDone branch sets size and forgets sizeHuman.
sizeOf_NoHumanForBytesDone(obj) ==
  LET status   == NestedMap(obj, "status")
      progress == NestedMap(status.m, "progress")
      none     == [size |-> Nil, sizeHuman |-> ""]
  IN  IF ~(status.found /\ progress.found) THEN none
      ELSE IF "totalBytes" \in DOMAIN progress.m
        THEN LET r == getInt64(progress.m["totalBytes"])
             IN  IF r.ok THEN [size |-> <<r.n>>, sizeHuman |-> humanBytes(r.n)]
                 ELSE none
      ELSE IF "bytesDone" \in DOMAIN progress.m
        THEN LET r == getInt64(progress.m["bytesDone"])
             IN  IF r.ok THEN [size |-> <<r.n>>, sizeHuman |-> ""] ELSE none
      ELSE none

\* size and sizeHuman from status.progress: totalBytes, else-if bytesDone.
sizeOf(obj) ==
  LET status   == NestedMap(obj, "status")
      progress == NestedMap(status.m, "progress")
      none     == [size |-> Nil, sizeHuman |-> ""]
  IN  IF ~(status.found /\ progress.found) THEN none
      ELSE IF "totalBytes" \in DOMAIN progress.m
        THEN LET r == getInt64(progress.m["totalBytes"])
             IN  IF r.ok THEN [size |-> <<r.n>>, sizeHuman |-> humanBytes(r.n)]
                 ELSE none
      ELSE IF "bytesDone" \in DOMAIN progress.m
        THEN LET r == getInt64(progress.m["bytesDone"])
             IN  IF r.ok THEN [size |-> <<r.n>>, sizeHuman |-> humanBytes(r.n)]
                 ELSE none
      ELSE none

AllDigits(s) == \A i \in 1..Len(s) : IsDigit(Chr(s, i))

\* time.Parse(time.RFC3339, t) for the UTC form YYYY-MM-DDTHH:MM:SSZ; any
\* other shape is a parse error here (offsets and fractional seconds are not
\* drawn, and the fields drawn are calendar dates and times of day).
parseRFC3339(t) ==
  /\ Len(t) = 20
  /\ AllDigits(SubSeq(t, 1, 4)) /\ Chr(t, 5) = "-"
  /\ AllDigits(SubSeq(t, 6, 7)) /\ Chr(t, 8) = "-"
  /\ AllDigits(SubSeq(t, 9, 10)) /\ Chr(t, 11) = "T"
  /\ AllDigits(SubSeq(t, 12, 13)) /\ Chr(t, 14) = ":"
  /\ AllDigits(SubSeq(t, 15, 16)) /\ Chr(t, 17) = ":"
  /\ AllDigits(SubSeq(t, 18, 19)) /\ Chr(t, 20) = "Z"

\* ti.Format("2006-01-02 15:04:05") of a parsed UTC timestamp.
formatTime(t) == SubSeq(t, 1, 10) \o " " \o SubSeq(t, 12, 19)

createdOf(obj) ==
  LET t == NestedString(obj, "metadata", "creationTimestamp")
  IN  IF ~t.found THEN [human |-> "", rfc |-> ""]
      ELSE [human |-> IF parseRFC3339(t.s) THEN formatTime(t.s) ELSE t.s,
            rfc   |-> t.s]

\* The row the loop body appends for an item that passed the filters.
rowOf(obj) ==
  [PodName        |-> podNameOf(obj),
   PodNamespace   |-> podNSOf(obj),
   Volume         |-> volumeOf(obj),
   SizeBytes      |-> sizeOf(obj).size,
   SizeHuman      |-> sizeOf(obj).sizeHuman,
   Created        |-> createdOf(obj).human,
   CreatedRFC3339 |-> createdOf(obj).rfc,
   BackupName     |-> GetBackupLabel(obj),
   ResourceName   |-> GetName(obj)]

\* less without the tie-break on Volume.
less_PodNameOnly(a, b) == StrLess(a.PodName, b.PodName)

\* The less function handed to sort.Slice.
less(a, b) ==
  IF a.PodName = b.PodName THEN StrLess(a.Volume, b.Volume)
  ELSE StrLess(a.PodName, b.PodName)

Bijections(n) ==
  {f \in [1..n -> 1..n] : \A i, j \in 1..n : f[i] = f[j] => i = j}

\* What sort.Slice(rows, less) may leave: sort.Slice is not stable, so every
\* arrangement of rows in which no element is less than an earlier one.
sortSlice(rows) ==
  LET n == Len(rows)
  IN  {q \in {[i \in 1..n |-> rows[f[i]]] : f \in Bijections(n)} :
         \A i, j \in 1..n : i < j => ~less(q[j], q[i])}

\* ---------------------------------------------------------------- renderers
\* A validation that lets every mode through (to the default renderer).
validOutMode_Any(m) == TRUE

\* Output mode validation: the switch on outMode.
validOutMode(m) == m \in {"table", "json", "yaml", "csv", "pretty"}

\* sizeOut that takes a size of 0 for a missing one.
sizeOut_ZeroIsMissing(r) ==
  IF r.SizeBytes # Nil /\ r.SizeBytes # <<Zero>>
    THEN (IF r.SizeHuman = "" THEN humanBytes(r.SizeBytes[1]) ELSE r.SizeHuman)
    ELSE "-"

\* The Size cell of the csv, pretty and table renderers.
sizeOut(r) ==
  IF r.SizeBytes # Nil
    THEN (IF r.SizeHuman = "" THEN humanBytes(r.SizeBytes[1]) ELSE r.SizeHuman)
    ELSE "-"

\* The Created cell of the csv, pretty and table renderers.
createdOut(r) ==
  IF r.Created = "" /\ r.CreatedRFC3339 # "" THEN r.CreatedRFC3339 ELSE r.Created

Header == <<"Pod name", "Pod namespace", "Volume", "Size", "Created">>

cells(r) == <<r.PodName, r.PodNamespace, r.Volume, sizeOut(r), createdOut(r)>>

Quote == "\""

\* encoding/json's string literal; no character of the model needs escaping.
jsonString(s) == Quote \o s \o Quote

\* The fields of a row the encoders keep, in struct order: omitempty drops a
\* nil sizeBytes and the empty strings of the tagged fields.
rowFields(r) ==
  <<<<"podName", jsonString(r.PodName)>>,
    <<"podNamespace", jsonString(r.PodNamespace)>>,
    <<"volume", jsonString(r.Volume)>>>>
  \o (IF r.SizeBytes # Nil THEN <<<<"sizeBytes", FormatInt(r.SizeBytes[1])>>>> ELSE <<>>)
  \o (IF r.SizeHuman # "" THEN <<<<"sizeHuman", jsonString(r.SizeHuman)>>>> ELSE <<>>)
  \o (IF r.Created # "" THEN <<<<"created", jsonString(r.Created)>>>> ELSE <<>>)
  \o (IF r.CreatedRFC3339 # ""
        THEN <<<<"createdRFC3339", jsonString(r.CreatedRFC3339)>>>> ELSE <<>>)
  \o (IF r.BackupName # "" THEN <<<<"backupName", jsonString(r.BackupName)>>>> ELSE <<>>)
  \o (IF r.ResourceName # ""
        THEN <<<<"resourceName", jsonString(r.ResourceName)>>>> ELSE <<>>)

\* The document json.Encoder encodes: one object per row.  The encoder's text
\* (indentation, brackets) is not modelled, the document is.
jsonDoc(rows) == [i \in 1..Len(rows) |-> rowFields(rows[i])]

\* Insertion of a pair into pairs sorted by key.
RECURSIVE InsertByKey(_, _)
InsertByKey(p, ps) ==
  IF ps = <<>> THEN <<p>>
  ELSE IF StrLess(p[1], Head(ps)[1]) THEN <<p>> \o ps
  ELSE <<Head(ps)>> \o InsertByKey(p, Tail(ps))

RECURSIVE SortByKey(_)
SortByKey(ps) ==
  IF ps = <<>> THEN <<>> ELSE InsertByKey(Head(ps), SortByKey(Tail(ps)))

\* The document yaml.Marshal encodes: the JSON document with each object's
\* keys in sorted order.
yamlDoc(rows) == [i \in 1..Len(rows) |-> SortByKey(rowFields(rows[i]))]

\* encoding/csv's fieldNeedsQuotes (no backslash, CR or LF is drawn).
fieldNeedsQuotes(f) ==
  /\ f # ""
  /\ \/ Contains(f, ",")
     \/ Contains(f, Quote)
     \/ Chr(f, 1) = " "

RECURSIVE DoubleQuotes(_)
DoubleQuotes(f) ==
  IF f = "" THEN ""
  ELSE (IF Chr(f, 1) = Quote THEN Quote \o Quote ELSE Chr(f, 1)) \o DoubleQuotes(Tail(f))

csvField(f) ==
  IF fieldNeedsQuotes(f) THEN Quote \o DoubleQuotes(f) \o Quote ELSE f

RECURSIVE Join(_, _)
Join(fs, sep) ==
  IF fs = <<>> THEN ""
  ELSE IF Len(fs) = 1 THEN fs[1]
  ELSE fs[1] \o sep \o Join(Tail(fs), sep)

\* csv.Writer.Write of one record.
csvLine(fs) == Join([i \in 1..Len(fs) |-> csvField(fs[i])], ",") \o "\n"

RECURSIVE ConcatAll(_)
ConcatAll(ss) == IF ss = <<>> THEN "" ELSE Head(ss) \o ConcatAll(Tail(ss))

\* Everything the csv renderer hands to its buffered writer.
csvText(rows) ==
  csvLine(Header) \o ConcatAll([i \in 1..Len(rows) |-> csvLine(cells(rows[i]))])

Max(a, b) == IF a > b THEN a ELSE b

\* text/tabwriter with minwidth 0, padding 2, padchar ' ': the width of
\* column j is its widest cell plus the padding.
RECURSIVE colWidth(_, _)
colWidth(lines, j) ==
  IF lines = <<>> THEN 0
  ELSE Max(Len(Head(lines)[j]) + 2, colWidth(Tail(lines), j))

\* One line of the table: every tab-terminated cell padded to its column,
\* the last cell as it is.
tableLine(lines, l) ==
  ConcatAll([j \in 1..4 |-> l[j] \o Repeat(" ", colWidth(lines, j) - Len(l[j]))])
  \o l[5] \o "\n"

\* The lines tabwriter.Flush writes.
tableText(rows) ==
  LET lines == <<Header>> \o [i \in 1..Len(rows) |-> cells(rows[i])]
  IN  [i \in 1..Len(lines) |-> tableLine(lines, lines[i])]

\* The Printf/Println calls of the pretty renderer for row i of n.
prettyRow(en, r, i, n) ==
  <<c(en, "36", "Backup:    ") \o " " \o c(en, "1", c(en, "97", r.BackupName)) \o "\n",
    c(en, "36", "Pod:       ") \o " " \o c(en, "97", r.PodName) \o "\n",
    c(en, "36", "Namespace: ") \o " " \o c(en, "97", r.PodNamespace) \o "\n",
    c(en, "36", "Volume:    ") \o " " \o c(en, "97", r.Volume) \o "\n",
    c(en, "36", "Size:      ") \o " " \o c(en, "97", sizeOut(r))>>
  \o (IF r.SizeBytes # Nil
        THEN <<" " \o c(en, "2", "(" \o FormatInt(r.SizeBytes[1]) \o " bytes)")>>
        ELSE <<>>)
  \o <<"\n",
       c(en, "36", "Created:   ") \o " " \o c(en, "97", createdOut(r)) \o "\n",
       c(en, "36", "Resource:  ") \o " " \o c(en, "2", r.ResourceName) \o "\n">>
  \o (IF i < n THEN <<prettyDivider(en) \o "\n">> ELSE <<>>)

RECURSIVE prettyRows(_, _, _)
prettyRows(en, rows, i) ==
  IF i > Len(rows) THEN <<>>
  ELSE prettyRow(en, rows[i], i, Len(rows)) \o prettyRows(en, rows, i + 1)

\* Every write of the pretty renderer, in order.
prettyText(en, rows) ==
  <<c(en, "1;34", "PodVolumeBackup") \o " "
      \o c(en, "2", "(" \o ToString(Len(rows)) \o " items)") \o "\n">>
  \o (IF Len(rows) > 0 THEN <<prettyDivider(en) \o "\n">> ELSE <<>>)
  \o prettyRows(en, rows, 1)

\* ------------------------------------------------------------------- state
VARIABLES
  input,          \* flags, arguments, the cluster's items and the ambient signals
  pc,             \* where main() is
  prefix,         \* var prefix string
  pvbList,        \* pvbList.Items
  podNeedles,     \* the three filter lists
  nsAllowed,
  volumeAllowed,
  outMode,
  colorEnabled,
  colorCalls,     \* how many times detectColor has been called
  rows,
  idx,            \* items the range loop has taken
  sorted,         \* whether sort.Slice has run
  stdout,         \* the writes standard output accepted, in order
  stderr,
  writeFailed,    \* whether a write to standard output returned an error
  exitCode,
  hbA, hbB,       \* two byte counts and humanBytes of each
  hbOutA, hbOutB

vars == <<input, pc, prefix, pvbList, podNeedles, nsAllowed, volumeAllowed,
          outMode, colorEnabled, colorCalls, rows, idx, sorted, stdout, stderr,
          writeFailed, exitCode, hbA, hbB, hbOutA, hbOutB>>

hbVars == <<hbA, hbB, hbOutA, hbOutB>>

\* ------------------------------------------------------------------ inputs
PVB(name, labels, ts, spec, status) ==
  ("metadata" :> Map(("name" :> Str(name)) @@ Opt("labels", labels)
                       @@ Opt("creationTimestamp", ts)))
  @@ Opt("spec", spec) @@ Opt("status", status)

Labels(b)        == Map(BackupNameLabel :> Str(b))
Pod(n, ns)       == Map(Opt("name", n) @@ Opt("namespace", ns))
SpecOf(pod, vol) == Map(Opt("pod", pod) @@ Opt("volume", vol))
Progress(tb, bd) == Map("progress" :> Map(Opt("totalBytes", tb) @@ Opt("bytesDone", bd)))

Stamp == Str("2024-01-01T00:00:00Z")

\* Items that differ in what the name test and the filters read.
FilterPool ==
  <<PVB("ab1", Labels("ab"), Stamp, SpecOf(Pod(Str("Nginx"), Str("prod")), Str("data")),
        Progress(IntV(IntOf(2048)), Absent)),
    PVB("ab2", Absent, Absent, SpecOf(Pod(Str("redis"), Str("dev")), Str("cache")),
        Progress(Str("x1"), IntV(IntOf(512)))),
    PVB("b3", Labels("b"), Str("yesterday"),
        SpecOf(Pod(IntV(IntOf(7)), Str("prod")), Absent), Absent),
    PVB("a4", Absent, Stamp, SpecOf(Pod(Str("Nginx"), Str("dev")), Str("cache")),
        Progress(Absent, IntV(IntOf(0)))),
    PVB("ab6", Labels("ab"), Absent, SpecOf(Pod(Str("Nginx"), Str("dev")), Str("data")),
        Absent)>>

\* Values of status.progress.totalBytes and of status.progress.bytesDone.
TotalBytesPool ==
  <<Absent, IntV(IntOf(0)), Str("-5"), FloatV(IntOf(1536), TRUE), Bool,
    Num("9223372036854775808")>>

BytesDonePool == <<Absent, IntV(IntOf(512)), Str("")>>

\* Items that differ in status: no status, no progress, a progress that is
\* no map, and every pair of the two pools.
StatusPool ==
  <<Absent, Map(<<>>), Map("progress" :> Str("done"))>>
  \o [k \in 1..(Len(TotalBytesPool) * Len(BytesDonePool)) |->
        Progress(TotalBytesPool[((k - 1) \div Len(BytesDonePool)) + 1],
                 BytesDonePool[((k - 1) % Len(BytesDonePool)) + 1])]

SizeItem(i, k) ==
  PVB("b-" \o ToString(i), Labels("b"), Stamp,
      SpecOf(Pod(Str("web"), Str("prod")), Str("data")), StatusPool[k])

\* Every list of at most n items of pool, no item twice.
Lists(pool, n) ==
  UNION {{[k \in 1..len |-> pool[f[k]]] :
            f \in {g \in [1..len -> 1..Len(pool)] :
                     \A a, b \in 1..len : g[a] = g[b] => a = b}} :
         len \in 0..n}

\* Every list of at most n items that differ in status alone.
SizeLists(n) ==
  UNION {{[i \in 1..len |-> SizeItem(i, f[i])] : f \in [1..len -> 1..Len(StatusPool)]} :
         len \in 0..n}

\* The writes standard output accepts before every later one fails (a
\* closed pipe, a full disk); NoLimit for a destination that never fails.
NoLimit == [limited |-> FALSE, n |-> 0]
Cap(n)  == [limited |-> TRUE, n |-> n]

Defaults ==
  [allFlag |-> TRUE, args |-> <<>>, podFilterFlag |-> "", podNSFilterFlag |-> "",
   volumeFilterFlag |-> "", outputFlag |-> "table", colorFlag |-> "auto",
   debugFlag |-> FALSE, noColor |-> "", isTerminal |-> FALSE, listOk |-> TRUE,
   stdoutCap |-> NoLimit, cluster |-> <<>>]

\* Runs that differ in the items, the name selection and the three filters.
FilterInputs ==
  {[Defaults EXCEPT !.allFlag = sel[1], !.args = sel[2], !.podFilterFlag = pf,
                    !.podNSFilterFlag = nf, !.volumeFilterFlag = vf, !.cluster = items] :
     sel \in {<<TRUE, <<>>>>, <<TRUE, <<"zz">>>>, <<FALSE, <<>>>>, <<FALSE, <<"">>>>,
              <<FALSE, <<"ab">>>>, <<FALSE, <<"a", "b">>>>},
     pf \in {" , ", "NGI", "x, red"},
     nf \in {"", "prod", "dev,staging"},
     vf \in {"", "Data, cache"},
     items \in Lists(FilterPool, MaxItems)}

\* Runs that differ in the items' status and in the output mode.
SizeInputs ==
  {[Defaults EXCEPT !.outputFlag = o, !.colorFlag = cf, !.cluster = items] :
     o \in {"table", "json", "yaml", "csv", "pretty"},
     cf \in {"always", "never"},
     items \in SizeLists(MaxSizeItems)}

\* Runs that differ in the output and color flags, the ambient signals and
\* the failures of the fetch and of standard output.
RenderInputs ==
  {[Defaults EXCEPT !.outputFlag = o, !.colorFlag = cf, !.debugFlag = d,
                    !.noColor = nc, !.isTerminal = tty, !.listOk = ok,
                    !.stdoutCap = cap, !.cluster = SubSeq(FilterPool, 1, n)] :
     o \in {"table", "json", "yaml", "csv", "pretty", " JSON ", "xml"},
     cf \in {"auto", "always", "never", " Always ", "bogus"},
     d \in BOOLEAN, nc \in {"", "1"}, tty \in BOOLEAN, ok \in BOOLEAN,
     cap \in {NoLimit, Cap(0), Cap(2)},
     n \in 0..MaxItems}

NoInput == [Defaults EXCEPT !.listOk = FALSE]

\* The state before main() runs.
InitRun ==
  /\ pc = "args"
  /\ prefix = ""
  /\ pvbList = <<>>
  /\ podNeedles = <<>> /\ nsAllowed = <<>> /\ volumeAllowed = <<>>
  /\ outMode = ""
  /\ colorEnabled = FALSE
  /\ colorCalls = 0
  /\ rows = <<>>
  /\ idx = 0
  /\ sorted = FALSE
  /\ stdout = <<>>
  /\ stderr = <<>>
  /\ writeFailed = FALSE
  /\ exitCode = 0

Init ==
  /\ input \in FilterInputs \cup SizeInputs \cup RenderInputs
  /\ InitRun
  /\ hbA = Zero /\ hbB = Zero /\ hbOutA = "" /\ hbOutB = ""

\* ----------------------------------------------------------------- actions
\* os.Exit(code) after a message on standard error.
Die(msg) ==
  /\ pc' = "exited"
  /\ exitCode' = 1
  /\ stderr' = Append(stderr, msg)

\* pflag.Parse and the prefix: a positional argument unless --all.
ParseArgs ==
  /\ pc = "args"
  /\ IF ~input.allFlag /\ Len(input.args) < 1
       THEN /\ Die("Usage:")
            /\ UNCHANGED prefix
       ELSE /\ prefix' = (IF input.allFlag THEN "" ELSE input.args[1])
            /\ pc' = "list"
            /\ UNCHANGED <<stderr, exitCode>>
  /\ UNCHANGED <<input, pvbList, podNeedles, nsAllowed, volumeAllowed, outMode,
                 colorEnabled, colorCalls, rows, idx, sorted, stdout, writeFailed,
                 hbVars>>

\* client.Resource(...).List: the items, or the error that ends the run.
ListResources ==
  /\ pc = "list"
  /\ IF ~input.listOk
       THEN /\ Die("Failed to list PodVolumeBackups: error")
            /\ UNCHANGED pvbList
       ELSE /\ pvbList' = input.cluster
            /\ pc' = "filters"
            /\ UNCHANGED <<stderr, exitCode>>
  /\ UNCHANGED <<input, prefix, podNeedles, nsAllowed, volumeAllowed, outMode,
                 colorEnabled, colorCalls, rows, idx, sorted, stdout, writeFailed,
                 hbVars>>

BuildFilters ==
  /\ pc = "filters"
  /\ podNeedles' = splitCSV(input.podFilterFlag)
  /\ nsAllowed' = splitCSV(input.podNSFilterFlag)
  /\ volumeAllowed' = splitCSV(input.volumeFilterFlag)
  /\ pc' = "validate"
  /\ UNCHANGED <<input, prefix, pvbList, outMode, colorEnabled, colorCalls, rows,
                 idx, sorted, stdout, stderr, writeFailed, exitCode, hbVars>>

\* The output mode is validated, then detectColor is called.
ValidateOutput ==
  /\ pc = "validate"
  /\ outMode' = ToLower(TrimSpace(input.outputFlag))
  /\ IF ~validOutMode(outMode')
       THEN /\ Die("Invalid --output: " \o outMode'
                     \o " (allowed: table|json|yaml|csv|pretty)")
            /\ UNCHANGED <<colorEnabled, colorCalls>>
       ELSE /\ colorEnabled' = detectColor(input.colorFlag, input.noColor,
                                           input.isTerminal)
            /\ colorCalls' = colorCalls + 1
            /\ pc' = "loop"
            /\ UNCHANGED <<stderr, exitCode>>
  /\ UNCHANGED <<input, prefix, pvbList, podNeedles, nsAllowed, volumeAllowed,
                 rows, idx, sorted, stdout, writeFailed, hbVars>>

\* One turn of for _, item := range pvbList.Items.
ProcessItem ==
  /\ pc = "loop"
  /\ idx < Len(pvbList)
  /\ LET item == pvbList[idx + 1]
         keep == keepItem(item, input.allFlag, prefix, podNeedles, nsAllowed,
                          volumeAllowed)
     IN  /\ rows' = (IF keep THEN Append(rows, rowOf(item)) ELSE rows)
         /\ stderr' = (IF keep /\ hasProgress(item) /\ input.debugFlag
                         THEN Append(stderr, "DEBUG: name=" \o GetName(item))
                         ELSE stderr)
  /\ idx' = idx + 1
  /\ UNCHANGED <<input, pc, prefix, pvbList, podNeedles, nsAllowed, volumeAllowed,
                 outMode, colorEnabled, colorCalls, sorted, stdout, writeFailed,
                 exitCode, hbVars>>

\* sort.Slice(rows, less) once the loop is over.
SortRows ==
  /\ pc = "loop"
  /\ idx = Len(pvbList)
  /\ rows' \in sortSlice(rows)
  /\ sorted' = TRUE
  /\ pc' = "render"
  /\ UNCHANGED <<input, prefix, pvbList, podNeedles, nsAllowed, volumeAllowed,
                 outMode, colorEnabled, colorCalls, idx, stdout, stderr,
                 writeFailed, exitCode, hbVars>>

\* A write chunk of standard output.
Text(s)      == [kind |-> "text", text |-> s, doc |-> <<>>]
Doc(kind, d) == [kind |-> kind, text |-> "", doc |-> d]

\* The writes of chunks that standard output accepts: all of them, or the
\* first stdoutCap of the run.
Accepted(chunks) ==
  IF ~input.stdoutCap.limited \/ Len(chunks) <= input.stdoutCap.n
    THEN chunks
    ELSE SubSeq(chunks, 1, input.stdoutCap.n)

\* Writes chunks in order; failed tells whether a write returned an error.
WriteAll(chunks) ==
  /\ stdout' = stdout \o Accepted(chunks)
  /\ writeFailed' = (Len(Accepted(chunks)) < Len(chunks))

\* main() returns.
Return ==
  /\ pc' = "exited"
  /\ exitCode' = 0
  /\ UNCHANGED stderr

RenderFrame ==
  UNCHANGED <<input, prefix, pvbList, podNeedles, nsAllowed, volumeAllowed,
              outMode, colorEnabled, colorCalls, rows, idx, sorted, hbVars>>

\* case "json": enc.Encode(rows), whose error ends the run.
RenderJSON ==
  /\ pc = "render" /\ outMode = "json"
  /\ WriteAll(<<Doc("json", jsonDoc(rows))>>)
  /\ IF writeFailed' THEN Die("Failed to encode JSON: write error") ELSE Return
  /\ RenderFrame

\* case "yaml": yaml.Marshal, then a Write whose error is dropped.
RenderYAML ==
  /\ pc = "render" /\ outMode = "yaml"
  /\ WriteAll(<<Doc("yaml", yamlDoc(rows))>>)
  /\ Return
  /\ RenderFrame

\* case "csv": buffered writes, one flush, then w.Error().
RenderCSV ==
  /\ pc = "render" /\ outMode = "csv"
  /\ WriteAll(<<Text(csvText(rows))>>)
  /\ IF writeFailed' THEN Die("Failed to write CSV: write error") ELSE Return
  /\ RenderFrame

\* case "pretty": Printf and Println, their errors dropped.
RenderPretty ==
  /\ pc = "render" /\ outMode = "pretty"
  /\ LET t == prettyText(colorEnabled, rows)
     IN  WriteAll([i \in 1..Len(t) |-> Text(t[i])])
  /\ Return
  /\ RenderFrame

\* default (table): tabwriter, the error of Flush dropped.
RenderTable ==
  /\ pc = "render" /\ outMode \notin {"json", "yaml", "csv", "pretty"}
  /\ LET t == tableText(rows)
     IN  WriteAll([i \in 1..Len(t) |-> Text(t[i])])
  /\ Return
  /\ RenderFrame

Next ==
  \/ ParseArgs
  \/ ListResources
  \/ BuildFilters
  \/ ValidateOutput
  \/ ProcessItem
  \/ SortRows
  \/ RenderJSON
  \/ RenderYAML
  \/ RenderCSV
  \/ RenderPretty
  \/ RenderTable

Spec == Init /\ [][Next]_vars

\* ------------------------------------------------- humanBytes on its own
\* Magnitudes of at most 63 bits: a top limb, then limbs that are all zeros
\* or all ones, so that every power of 1024 and its predecessor is there.
TopLimbs == {1, 512, 1023}

LowLimbs == {0, 1023}

HBPool ==
  {<<>>}
  \cup UNION {{low \o <<t>> : low \in [1..len -> LowLimbs], t \in TopLimbs} : len \in 0..5}
  \cup {low \o <<t>> : low \in [1..6 -> LowLimbs], t \in {1, 7}}

\* The thresholds 1024^k and their predecessors, 0 and 2^63 - 1.
RECURSIVE Pow1024(_)
Pow1024(k) == IF k = 0 THEN <<1>> ELSE <<0>> \o Pow1024(k - 1)

HBEdges ==
  {<<>>, <<1023, 1023, 1023, 1023, 1023, 1023, 7>>}
  \cup {Pow1024(k) : k \in 1..6}
  \cup {[i \in 1..k |-> 1023] : k \in 1..6}

InitHuman ==
  /\ input = NoInput
  /\ InitRun
  /\ hbA \in {I64(FALSE, m) : m \in HBPool}
  /\ hbB \in {I64(FALSE, m) : m \in HBEdges}
  /\ hbOutA = "" /\ hbOutB = ""

runVars == <<input, pc, prefix, pvbList, podNeedles, nsAllowed, volumeAllowed,
             outMode, colorEnabled, colorCalls, rows, idx, sorted, stdout, stderr,
             writeFailed, exitCode>>

FormatA ==
  /\ hbOutA = ""
  /\ hbOutA' = humanBytes(hbA)
  /\ UNCHANGED <<runVars, hbA, hbB, hbOutB>>

FormatB ==
  /\ hbOutB = ""
  /\ hbOutB' = humanBytes(hbB)
  /\ UNCHANGED <<runVars, hbA, hbB, hbOutA>>

NextHuman == FormatA \/ FormatB

SpecHuman == InitHuman /\ [][NextHuman]_vars

\* ================================================================== claims
\* Helpers of the statements below.
SetOf(seq) == {seq[i] : i \in 1..Len(seq)}

RowsNamed(name) == {i \in 1..Len(rows) : rows[i].ResourceName = name}

\* The item a row was built from.
ItemOf(r) ==
  pvbList[CHOOSE i \in 1..Len(pvbList) : GetName(pvbList[i]) = r.ResourceName]

\* s contains sub, compared without regard to case, character by character.
ContainsNoCase(s, sub) ==
  \E off \in 0..(Len(s) - Len(sub)) :
    \A j \in 1..Len(sub) : LowerChr(Chr(s, off + j)) = LowerChr(Chr(sub, j))

StartsWith(s, p) ==
  Len(p) <= Len(s) /\ \A j \in 1..Len(p) : Chr(s, j) = Chr(p, j)

\* The four conditions of the filter, as the specification words them.
Passes(obj) ==
  /\ input.allFlag \/ StartsWith(GetName(obj), input.args[1])
  /\ \/ SetOf(podNeedles) = {}
     \/ /\ podNameOf(obj) # ""
        /\ \E n \in SetOf(podNeedles) : ContainsNoCase(podNameOf(obj), n)
  /\ SetOf(nsAllowed) = {} \/ podNSOf(obj) \in SetOf(nsAllowed)
  /\ SetOf(volumeAllowed) = {} \/ volumeOf(obj) \in SetOf(volumeAllowed)

\* C1: at every point of the loop and after it, each item the loop has taken
\* has exactly one row if it passes the name test and the three filters, and
\* no row otherwise; and there is no other row.
C1_FilterIff ==
  pc \in {"loop", "render"} \/ (pc = "exited" /\ sorted) =>
    /\ \A i \in 1..idx :
         Cardinality(RowsNamed(GetName(pvbList[i])))
           = (IF Passes(pvbList[i]) THEN 1 ELSE 0)
    /\ Len(rows) = Cardinality({i \in 1..idx : Passes(pvbList[i])})

\* The loop is over; a prefix, a pod needle in another case and a namespace
\* set were given; one item was kept and one was dropped.
C1_Witness ==
  /\ pc = "render"
  /\ ~input.allFlag /\ input.args[1] = "ab"
  /\ podNeedles = <<"NGI">> /\ nsAllowed = <<"prod">>
  /\ Len(pvbList) = 2 /\ Len(rows) = 1
  /\ rows[1].PodName = "Nginx"

SortStep == pc = "loop" /\ pc' = "render"

Ascending(q) ==
  \A i \in 1..(Len(q) - 1) :
    \/ StrLess(q[i].PodName, q[i + 1].PodName)
    \/ /\ q[i].PodName = q[i + 1].PodName
       /\ (StrLess(q[i].Volume, q[i + 1].Volume) \/ q[i].Volume = q[i + 1].Volume)

IsPermutation(p, q) ==
  /\ Len(p) = Len(q)
  /\ \E f \in Bijections(Len(p)) : \A i \in 1..Len(p) : q[i] = p[f[i]]

\* C2: the sort step leaves a permutation of the rows the loop built, in
\* ascending order of podName and, for equal podName, of volume; and that is
\* what the renderer gets.
C2_SortedPermutation ==
  [][SortStep => IsPermutation(rows, rows') /\ Ascending(rows')]_vars

\* Sorted rows with a tie on podName that the sort had to swap.
C2_Witness ==
  /\ pc = "render" /\ sorted
  /\ Len(rows) = 2
  /\ rows[1].PodName = rows[2].PodName
  /\ StrLess(rows[1].Volume, rows[2].Volume)
  /\ rows[1].ResourceName = GetName(pvbList[2])

\* The size the preference order of the specification gives an item.
PreferredSize(obj) ==
  LET progress == NestedMap(NestedMap(obj, "status").m, "progress")
      tb       == Get(progress.m, "totalBytes")
      bd       == Get(progress.m, "bytesDone")
  IN  IF ~progress.found THEN Nil
      ELSE IF tb.t # "absent" /\ getInt64(tb).ok THEN <<getInt64(tb).n>>
      ELSE IF bd.t # "absent" /\ getInt64(bd).ok THEN <<getInt64(bd).n>>
      ELSE Nil

\* C3: every row's size is totalBytes if present and coercible, otherwise
\* bytesDone if present and coercible, otherwise absent.
C3_SizePreference ==
  \A i \in 1..Len(rows) : rows[i].SizeBytes = PreferredSize(ItemOf(rows[i]))

\* C4: the sort step keeps rows of equal (podName, volume) in their order.
Stable(p, q) ==
  \A i, j \in 1..Len(p) :
    (i < j /\ p[i].PodName = p[j].PodName /\ p[i].Volume = p[j].Volume) =>
      \A a, b \in 1..Len(q) : (q[a] = p[i] /\ q[b] = p[j]) => a < b

C4_SortStable == [][SortStep => Stable(rows, rows')]_vars

\* C5: in every state, each row has a sizeHuman exactly when it has a size.
C5_SizeHumanIffSize ==
  \A i \in 1..Len(rows) : (rows[i].SizeHuman # "") <=> (rows[i].SizeBytes # Nil)

\* A row whose size is present and 0, and one built from a malformed
\* totalBytes.
C5_Witness ==
  /\ Len(rows) = 2
  /\ rows[1].SizeBytes = <<Zero>> /\ rows[1].SizeHuman = "0 B"
  /\ Get(NestedMap(NestedMap(ItemOf(rows[2]), "status").m, "progress").m,
         "totalBytes").t = "string"
  /\ rows[2].SizeBytes = Nil /\ rows[2].SizeHuman = ""

\* What standard output holds, as lines.
OutLines ==
  Split(ConcatAll([i \in 1..Len(stdout) |-> stdout[i].text]), "\n")

RECURSIVE StripAnsi(_)
StripAnsi(s) ==
  IF s = "" THEN ""
  ELSE IF Chr(s, 1) = ESC
    THEN LET m == CHOOSE i \in 1..Len(s) :
                    Chr(s, i) = "m" /\ \A j \in 1..(i - 1) : Chr(s, j) # "m"
         IN  StripAnsi(SubSeq(s, m + 1, Len(s)))
  ELSE Chr(s, 1) \o StripAnsi(Tail(s))

IndexOf(s, sub) ==
  CHOOSE i \in 1..Len(s) :
    /\ SubSeq(s, i, i + Len(sub) - 1) = sub
    /\ \A j \in 1..(i - 1) : SubSeq(s, j, j + Len(sub) - 1) # sub

RECURSIVE Select(_, _)
Select(seq, p) ==
  IF seq = <<>> THEN <<>>
  ELSE (IF HasPrefix(StripAnsi(Head(seq)), p) THEN <<StripAnsi(Head(seq))>> ELSE <<>>)
       \o Select(Tail(seq), p)

\* The Size field of row i as a reader of the output finds it: the fourth
\* field of line i + 1 (csv), the text under the Size header (table).
CsvSize(i) == Split(OutLines[i + 1], ",")[4]

TableSize(i) ==
  TrimSpace(SubSeq(OutLines[i + 1], IndexOf(OutLines[1], "Size"),
                   IndexOf(OutLines[1], "Created") - 1))

\* The i-th Size line of the pretty output without its styling, after the
\* label and the blank that follows it.
PrettySize(i) ==
  LET l == Select(OutLines, "Size:")[i] IN SubSeq(l, 13, Len(l))

SizeRendered(r, field) ==
  /\ (field = "-") <=> (r.SizeBytes = Nil)
  /\ r.SizeBytes # Nil => field = r.SizeHuman /\ field = humanBytes(r.SizeBytes[1])
  /\ r.SizeBytes = <<Zero>> => field = "0 B"

\* C6: in a complete table, csv or pretty output the Size field of a row is
\* "-" exactly when the row has no size, a present size (0 too) shows as its
\* human-readable string, and the pretty output adds the raw byte count
\* exactly when the size is present.
C6_SizeField ==
  pc = "exited" /\ exitCode = 0 /\ ~writeFailed =>
    \A i \in 1..Len(rows) :
      CASE outMode = "csv"    -> SizeRendered(rows[i], CsvSize(i))
        [] outMode = "table"  -> SizeRendered(rows[i], TableSize(i))
        [] outMode = "pretty" ->
             IF rows[i].SizeBytes = Nil
               THEN PrettySize(i) = "-"
               ELSE PrettySize(i) = rows[i].SizeHuman \o " ("
                                      \o FormatInt(rows[i].SizeBytes[1]) \o " bytes)"
                    /\ SizeRendered(rows[i], rows[i].SizeHuman)
        [] OTHER -> TRUE

\* A styled pretty output of one row whose size is present and 0.
C6_Witness ==
  /\ pc = "exited" /\ exitCode = 0 /\ ~writeFailed
  /\ outMode = "pretty" /\ colorEnabled
  /\ Len(rows) = 1 /\ rows[1].SizeBytes = <<Zero>>

RecognizedModes == {"table", "json", "yaml", "csv", "pretty"}

\* C7: with an output mode that is not recognised after trimming and
\* lower-casing, the run never takes an item, builds or sorts a row or
\* writes to standard output, and it ends in failure with the error reported.
C7_InvalidModeFatal ==
  ToLower(TrimSpace(input.outputFlag)) \notin RecognizedModes =>
    /\ pc \notin {"loop", "render"}
    /\ idx = 0 /\ rows = <<>> /\ ~sorted
    /\ stdout = <<>>
    /\ pc = "exited" => exitCode = 1 /\ stderr # <<>>

\* The run was stopped by the validation with items fetched.
C7_Witness ==
  /\ pc = "exited" /\ outMode = "xml"
  /\ Len(pvbList) > 0
  /\ exitCode = 1

\* C8: a run in which a write of the rendered output failed does not end as
\* a success.
C8_WriteFailureFatal ==
  pc = "exited" /\ writeFailed => exitCode # 0 /\ stderr # <<>>

\* The decision the three inputs determine.
Theme(mode, overrideSet, interactive) ==
  CASE mode = "never"  -> FALSE
    [] mode = "always" -> TRUE
    [] mode = "auto"   -> ~overrideSet /\ interactive

\* C9: for the color modes never, always and auto the decision is the one
\* the mode and the two ambient signals determine; it is taken once, before
\* anything is written; and every styled span of the output follows it.
C9_ThemeDecision ==
  /\ colorCalls <= 1
  /\ pc \in {"loop", "render"} => colorCalls = 1
  /\ stdout # <<>> => colorCalls = 1
  /\ colorCalls = 1 /\ ToLower(TrimSpace(input.colorFlag)) \in {"never", "always", "auto"} =>
       colorEnabled = Theme(ToLower(TrimSpace(input.colorFlag)), input.noColor # "",
                            input.isTerminal)
  /\ \A i \in 1..Len(stdout) :
       stdout[i].kind = "text" =>
         (Contains(stdout[i].text, ESC)
            <=> (colorEnabled /\ outMode = "pretty" /\ stdout[i].text # "\n"))

\* A pretty output styled because the mode is auto, NO_COLOR is unset and
\* standard output is a terminal.
C9_Witness ==
  /\ pc = "exited" /\ outMode = "pretty"
  /\ input.colorFlag = "auto" /\ input.noColor = "" /\ input.isTerminal
  /\ colorEnabled
  /\ Len(rows) = 2 /\ ~writeFailed

\* How many of the thresholds 1024^1 .. 1024^6 are at most n: the largest k
\* with 1024^k <= n (1024^7 exceeds every int64).
Thresholds(n) == Cardinality({k \in 1..6 : ~MagLess(n.mag, Pow1024(k))})

\* The rank of the unit a result names: 0 for B, k for the k-th of KMGTPE,
\* -1 for anything else.
UnitRank(out) ==
  IF Len(out) >= 3 /\ SubSeq(out, Len(out) - 1, Len(out)) = " B"
       /\ IsDigit(Chr(out, Len(out) - 2))
    THEN 0
  ELSE IF Len(out) >= 7 /\ SubSeq(out, Len(out) - 1, Len(out)) = "iB"
            /\ Chr(out, Len(out) - 3) = " "
            /\ \E k \in 1..6 : Chr(UnitLetters, k) = Chr(out, Len(out) - 2)
    THEN CHOOSE k \in 1..6 : Chr(UnitLetters, k) = Chr(out, Len(out) - 2)
  ELSE -1

HumanBytesRight(n, out) ==
  LET k == Thresholds(n)
  IN  /\ out # Panic
      /\ UnitRank(out) = k
      /\ k = 0 => out = ToString(IF n.mag = <<>> THEN 0 ELSE n.mag[1]) \o " B"
      /\ k > 0 => /\ humanBytesScale(n).exp = k - 1
                  /\ humanBytesScale(n).exp < Len(UnitLetters)
                  /\ humanBytesScale(n).div = Pow1024(k)
                  /\ ~humanBytesScale(n).over

\* C10: for every n >= 0 of 63 bits humanBytes gives "<n> B" below 1024 and
\* otherwise the k-th unit of KMGTPE for the largest k with 1024^k <= n,
\* the loop ending with its index inside the six letters and its divisor
\* 1024^k inside the int64 range; the unit never goes down as n grows; and
\* 1023, 1024 and 1048576 give "1023 B", "1.0 KiB" and "1.0 MiB".
C10_HumanBytesUnits ==
  /\ hbOutA # "" => HumanBytesRight(hbA, hbOutA)
  /\ hbOutB # "" => HumanBytesRight(hbB, hbOutB)
  /\ (hbOutA # "" /\ hbOutB # "") =>
       /\ ~MagLess(hbB.mag, hbA.mag) => UnitRank(hbOutA) <= UnitRank(hbOutB)
       /\ ~MagLess(hbA.mag, hbB.mag) => UnitRank(hbOutB) <= UnitRank(hbOutA)
  /\ (hbOutA # "" /\ hbA = IntOf(1023)) => hbOutA = "1023 B"
  /\ (hbOutA # "" /\ hbA = IntOf(1024)) => hbOutA = "1.0 KiB"
  /\ (hbOutA # "" /\ hbA = IntOf(1048576)) => hbOutA = "1.0 MiB"

\* 1048576 and the largest int64 have both been formatted.
C10_Witness ==
  /\ hbA = IntOf(1048576) /\ hbOutA = "1.0 MiB"
  /\ hbB = I64(FALSE, <<1023, 1023, 1023, 1023, 1023, 1023, 7>>)
  /\ hbOutB = "8.0 EiB"

====
